---- MODULE Spec2Model ----
(***************************************************************************)
(* The upload-validate-persist pipeline of the travel-form API, in each of *)
(* the six entry points the repository holds:                              *)
(*   "index_ts"            src/src/index.ts (disk storage, connect at boot)*)
(*   "part_001"            src/unnamed/part_001 (memory storage, cached    *)
(*                         connection, one catch)                          *)
(*   "part_000"            src/unnamed/part_000 lines 1-245                *)
(*   "part_000_serverless" src/unnamed/part_000 lines 246-365              *)
(*   "part_002"            src/unnamed/part_002 (connect, then ping)       *)
(*   "part_003"            src/unnamed/part_003                            *)
(* A process runs one entry point.  Handlers run atomically from one await *)
(* that performs I/O to the next (the connect, the ping, the save).        *)
(***************************************************************************)
EXTENDS Integers, Sequences, FiniteSets, TLC

VARIABLES
    variant,    \* the entry point this process runs
    nodeEnv,    \* process.env.NODE_ENV
    profile,    \* how the clients drive the process: one request at a time, or overlapping
    cachedDb,   \* cachedDb / dbConnected: TRUE once the handle is set
    connects,   \* mongoose.connect calls made so far
    store,      \* the travelforms collection: a set of [doc, req]
    reqs,       \* the requests: reqs[r] = [pc, input, resp, at]
    conn        \* conn[r]: how the connection step of request r went

vars == <<variant, nodeEnv, profile, cachedDb, connects, store, reqs, conn>>

(* ------------------------------ bounds --------------------------------- *)

\* requests one process lifetime receives
MaxReqs == 2

\* required text fields one request may leave out or leave empty
MaxBad == 2

(* --------------------------- entry points ------------------------------ *)

Variants ==
    {"index_ts", "part_001", "part_000", "part_000_serverless", "part_002", "part_003"}

\* multer.memoryStorage() against multer.diskStorage()
MemoryStorage(v) == v \in {"part_001", "part_000", "part_002", "part_003"}

\* the variants whose handler checks req.files and the required text fields
ValidatesFields(v) == v \in {"part_000", "part_002", "part_003"}

\* the variants whose every schema path is required: true (all but the
\* serverless one, whose paths are bare types)
SchemaRequired(v) == v # "part_000_serverless"

\* the variants that connect lazily inside the handler
ConnectsLazily(v) == v # "index_ts"

\* the variants with a response that depends on process.env.NODE_ENV
ReadsNodeEnv(v) == v \in {"part_000", "part_003"}

\* connectToDatabase pings after connecting (part_002 only)
Pings(v) == v = "part_002"

(* ------------------------------ values --------------------------------- *)

Undefined == "undefined"

requiredFields == <<"name", "email", "phone", "dateOfTravel", "source">>

RequiredSet == {requiredFields[i] : i \in 1..Len(requiredFields)}

allowedTypes == {"image/jpeg", "image/png", "application/pdf"}

\* the property of a JavaScript object, undefined when it has none
Get(obj, k) == IF k \in DOMAIN obj THEN obj[k] ELSE Undefined

\* obj restricted to the keys S
Restrict(obj, S) == [k \in (DOMAIN obj) \cap S |-> obj[k]]

\* { ...base, ...over }: the later keys win
Spread(base, over) == over @@ base

\* !x for the strings a parsed body holds
Falsy(x) == x = Undefined \/ x = ""

(* --------------------------- request inputs ---------------------------- *)

\* limits.fileSize
fileSize == 5 * 1024 * 1024

JpegFile == [mimetype |-> "image/jpeg", size |-> 10 * 1024, content |-> "jpeg-bytes"]

PngFile == [mimetype |-> "image/png", size |-> 10 * 1024, content |-> "png-bytes"]

PdfFile == [mimetype |-> "application/pdf", size |-> 20 * 1024, content |-> "pdf-bytes"]

TextFile == [mimetype |-> "text/plain", size |-> 100, content |-> "txt-bytes"]

BigJpegFile == [mimetype |-> "image/jpeg", size |-> 6 * 1024 * 1024, content |-> "big-bytes"]

ValidBody ==
    [name |-> "Asha", email |-> "asha@example.in", phone |-> "9848012345",
     dateOfTravel |-> "2024-01-15", source |-> "web"]

GoodFiles == [reviewScreenshot |-> <<JpegFile>>, ticket |-> <<PdfFile>>]

\* ValidBody with the fields of B left out (empty = FALSE) or sent empty
BadBody(B, empty) ==
    IF empty THEN [k \in RequiredSet |-> IF k \in B THEN "" ELSE ValidBody[k]]
    ELSE Restrict(ValidBody, RequiredSet \ B)

FieldBodies ==
    {BadBody(B, FALSE) : B \in {X \in SUBSET RequiredSet : Cardinality(X) <= MaxBad}}
    \cup {BadBody({f}, TRUE) : f \in RequiredSet}

\* text fields named like the attributes the server sets itself
SpoofFields ==
    [reviewScreenshot |-> "spoof-text", reviewScreenshotType |-> "text/html",
     ticket |-> "spoof-text", ticketType |-> "text/html",
     reviewScreenshotPath |-> "/etc/passwd", ticketPath |-> "/etc/passwd"]

ClientObjectId == "aaaaaaaaaaaaaaaaaaaaaaaa"

ExtraBodies ==
    { Spread(ValidBody, [createdAt |-> "2000-01-01"]),
      Spread(ValidBody, [createdAt |-> "not-a-date"]),
      Spread(ValidBody, [_id |-> ClientObjectId]),
      Spread(ValidBody, [_id |-> "xyz"]),
      Spread(ValidBody, [createdAt |-> "2000-01-01", _id |-> ClientObjectId]),
      Spread(ValidBody, SpoofFields),
      Spread(ValidBody, [dateOfTravel |-> "2024-01-15T00:00:00.000Z"]),
      Spread(ValidBody, [dateOfTravel |-> "not-a-date"]) }

FileSets ==
    { [reviewScreenshot |-> rs, ticket |-> <<PdfFile>>] :
        rs \in {<<>>, <<PngFile>>, <<TextFile>>, <<BigJpegFile>>, <<JpegFile, JpegFile>>} }
    \cup
    { [reviewScreenshot |-> <<JpegFile>>, ticket |-> tk] : tk \in {<<>>, <<TextFile>>} }
    \cup
    { [reviewScreenshot |-> <<>>, ticket |-> <<>>] }

Request(m, b, f) == [route |-> "submit", multipart |-> m, body |-> b, files |-> f]

\* GET /api/health
HealthRequest ==
    [route |-> "health", multipart |-> FALSE, body |-> [k \in {} |-> "undefined"],
     files |-> [reviewScreenshot |-> <<>>, ticket |-> <<>>]]

\* the requests a client sends one at a time
Inputs ==
    { Request(TRUE, b, GoodFiles) : b \in FieldBodies \cup ExtraBodies }
    \cup
    { Request(TRUE, ValidBody, f) : f \in FileSets }
    \cup
    { Request(TRUE, BadBody({"name"}, FALSE), f) :
        f \in {x \in FileSets : Len(x["reviewScreenshot"]) = 0} }
    \cup
    { Request(FALSE, b, [reviewScreenshot |-> <<>>, ticket |-> <<>>]) :
        b \in {ValidBody, BadBody(RequiredSet, FALSE)} }

\* the requests overlapping clients send
RaceInputs ==
    { Request(TRUE, ValidBody, GoodFiles),
      Request(TRUE, ValidBody, [reviewScreenshot |-> <<>>, ticket |-> <<PdfFile>>]) }

\* one request for each path through the upload middleware and the handler:
\* no multipart body, a file multer rejects (type, size, count), a missing
\* field, a missing file, a date that does not cast, a valid submission
PathInputs ==
    { Request(FALSE, ValidBody, [reviewScreenshot |-> <<>>, ticket |-> <<>>]),
      Request(TRUE, ValidBody, [reviewScreenshot |-> <<TextFile>>, ticket |-> <<PdfFile>>]),
      Request(TRUE, ValidBody, [reviewScreenshot |-> <<BigJpegFile>>, ticket |-> <<PdfFile>>]),
      Request(TRUE, ValidBody,
              [reviewScreenshot |-> <<JpegFile, JpegFile>>, ticket |-> <<PdfFile>>]),
      Request(TRUE, BadBody({"name"}, FALSE), GoodFiles),
      Request(TRUE, ValidBody, [reviewScreenshot |-> <<>>, ticket |-> <<PdfFile>>]),
      Request(TRUE, Spread(ValidBody, [dateOfTravel |-> "not-a-date"]), GoodFiles),
      Request(TRUE, ValidBody, GoodFiles) }

InputsOf(p) ==
    IF p = "sequential" THEN Inputs
    ELSE IF p = "paths" THEN PathInputs
    ELSE RaceInputs

(* ------------------------------- multer -------------------------------- *)

FileFields == <<"reviewScreenshot", "ticket">>

\* fileFilter with the type check lost: every file is accepted
fileFilterAcceptsAll(file) == "none"

\* fileFilter: the error it hands to cb, "none" when it accepts the file
fileFilter(file) ==
    IF file.mimetype \in allowedTypes THEN "none"
    ELSE "Invalid file type. Only JPEG, PNG and PDF files are allowed."

\* what multer makes of the files sent under one field name (maxCount: 1,
\* then fileFilter, then limits.fileSize): the error, "none" without one
PartError(sent) ==
    IF Len(sent) = 0 THEN "none"
    ELSE IF fileFilter(sent[1]) # "none" THEN fileFilter(sent[1])
    ELSE IF sent[1].size > fileSize THEN "File too large"
    ELSE IF Len(sent) > 1 THEN "Unexpected field"
    ELSE "none"

\* the error upload.fields(...) passes to next(err), "none" without one
UploadError(input) ==
    IF ~input.multipart THEN "none"
    ELSE IF PartError(input.files[FileFields[1]]) # "none"
         THEN PartError(input.files[FileFields[1]])
    ELSE PartError(input.files[FileFields[2]])

\* storage.filename / destination: where diskStorage writes the file of
\* request r sent under field name f (the suffix is unique per file)
DiskPath(r, f) == "uploads/" \o f \o "-" \o ToString(r)

\* the Express.Multer.File the storage engine yields
StoredFile(v, r, f, file) ==
    IF MemoryStorage(v)
    THEN [fieldname |-> f, mimetype |-> file.mimetype, buffer |-> file.content]
    ELSE [fieldname |-> f, mimetype |-> file.mimetype, path |-> DiskPath(r, f)]

\* req.files after upload.fields(...): an object keyed by the field names
\* that carried a file.  Only defined for a multipart request.
ReqFiles(v, r, input) ==
    [f \in {g \in {FileFields[1], FileFields[2]} : Len(input.files[g]) > 0} |->
        <<StoredFile(v, r, f, input.files[f][1])>>]

\* req.files is undefined: multer leaves a request that is not multipart alone
NoReqFiles(input) == ~input.multipart

(* ------------------------------ mongoose ------------------------------- *)

Null == "null"

CastError == "CastError"

AttachmentPaths(v) ==
    IF MemoryStorage(v)
    THEN {"reviewScreenshot", "reviewScreenshotType", "ticket", "ticketType"}
    ELSE {"reviewScreenshotPath", "ticketPath"}

\* travelFormSchema: its paths
travelFormSchema(v) == RequiredSet \cup AttachmentPaths(v) \cup {"createdAt"}

\* travelFormSchema: the type of a path (_id is the ObjectId mongoose adds)
PathType(k) ==
    IF k \in {"dateOfTravel", "createdAt"} THEN "Date"
    ELSE IF k \in {"reviewScreenshot", "ticket"} THEN "Buffer"
    ELSE IF k = "_id" THEN "ObjectId"
    ELSE "String"

\* travelFormSchema: required: true
PathRequired(v, k) == SchemaRequired(v) /\ k \in RequiredSet \cup AttachmentPaths(v)

\* the Date mongoose casts a string to: '' is null, a string Date cannot
\* parse is a CastError
castDate(x) ==
    IF x = "" THEN Null
    ELSE IF x \in {"2024-01-15", "2024-01-15T00:00:00.000Z"} THEN "Date(2024-01-15T00:00:00.000Z)"
    ELSE IF x = "2000-01-01" THEN "Date(2000-01-01T00:00:00.000Z)"
    ELSE CastError

\* the ObjectId mongoose casts a string to: 24 hex digits, else a CastError
castObjectId(x) == IF x = ClientObjectId THEN "ObjectId(" \o x \o ")" ELSE CastError

Cast(type, x) ==
    IF type = "Date" THEN castDate(x)
    ELSE IF type = "ObjectId" THEN castObjectId(x)
    ELSE x

\* Date.now when request r's document is constructed
Now(r) == "Date(now@" \o ToString(r) \o ")"

\* the ObjectId mongoose generates for request r's document
NewObjectId(r) == "ObjectId(generated@" \o ToString(r) \o ")"

\* new TravelForm(data): strict mode drops the keys the schema lacks, each
\* value is cast to its path's type, createdAt and _id default when absent
NewTravelForm(v, r, data) ==
    [k \in ((DOMAIN data) \cap (travelFormSchema(v) \cup {"_id"})) \cup {"createdAt", "_id"} |->
        IF k \in DOMAIN data THEN Cast(PathType(k), data[k])
        ELSE IF k = "createdAt" THEN Now(r)
        ELSE NewObjectId(r)]

\* a path of a document holds a value
Populated(doc, k) == k \in DOMAIN doc /\ doc[k] \notin {Null, "", CastError}

\* doc.validate() rejects the document: a failed cast, or a required path
\* without a value
ValidationFails(v, doc) ==
    \/ \E k \in DOMAIN doc : doc[k] = CastError
    \/ \E k \in travelFormSchema(v) : PathRequired(v, k) /\ ~Populated(doc, k)

\* the insert hits the unique index on _id
DuplicateKey(docs, doc) == \E e \in docs : e.doc["_id"] = doc["_id"]

(* ------------------------------ responses ------------------------------ *)

NoData == [k \in {} |-> Undefined]

Response(st, err, flds, det, dat) ==
    [status |-> st, error |-> err, fields |-> flds, details |-> det, data |-> dat]

\* no response sent yet
NoResp == Response(0, Undefined, <<>>, Undefined, NoData)

\* whether a 500 sent from `site` carries err.message as details
ExposesDetails(v, env, site) ==
    IF v = "part_000" THEN site # "middleware" \/ env = "development"
    ELSE IF v = "part_002" THEN TRUE
    ELSE IF v = "part_003" THEN site = "catch" \/ env = "development"
    ELSE FALSE

Details(v, env, site, message) ==
    IF ExposesDetails(v, env, site) THEN message ELSE Undefined

\* the error handling middleware, reached through next(err)
ErrorMiddleware(v, env, message) ==
    Response(500, "Something went wrong!", <<>>, Details(v, env, "middleware", message), NoData)

\* the catch around the whole handler
OuterCatch(v, env, message) ==
    Response(500, "Failed to submit form", <<>>, Details(v, env, "catch", message), NoData)

\* the response to a failed connectToDatabase() / connectDB()
ConnectFailure(v, env, message) ==
    IF ValidatesFields(v)
    THEN Response(500, "Database connection failed", <<>>,
                  Details(v, env, "connect", message), NoData)
    ELSE OuterCatch(v, env, message)

\* the response to a failed travelForm.save()
SaveFailure(v, env, message) ==
    IF ValidatesFields(v)
    THEN Response(500, "Failed to save form data", <<>>,
                  Details(v, env, "save", message), NoData)
    ELSE OuterCatch(v, env, message)

\* GET /api/health of part_002: res.json({ status: 'ok', database: 'connected' })
HealthOk ==
    Response(200, Undefined, <<>>, Undefined, [status |-> "ok", database |-> "connected"])

\* GET /api/health of part_002: its catch
HealthError ==
    Response(500, Undefined, <<>>, Undefined,
             [status |-> "error", message |-> "Database connection failed"])

\* what the caller of connectToDatabase() sends when it throws
ConnectFailureOf(v, env, input, message) ==
    IF input.route = "health" THEN HealthError ELSE ConnectFailure(v, env, message)

\* requiredFields.filter(field => !req.body[field])
missingFields(body) == SelectSeq(requiredFields, LAMBDA f : Falsy(Get(body, f)))

\* the 201 response that sends the whole document, buffers included
CreatedEchoesDocument(v, doc) == Response(201, Undefined, <<>>, Undefined, doc)

\* the data of the 201 response: the document, with reviewScreenshot and
\* ticket set to undefined (JSON drops them) where the handler does so
Created(v, doc) ==
    Response(201, Undefined, <<>>, Undefined,
             IF MemoryStorage(v)
             THEN Restrict(doc, (DOMAIN doc) \ {"reviewScreenshot", "ticket"})
             ELSE doc)

(* ------------------------------- handler ------------------------------- *)

\* what the handler sends before it reaches the connection step; NoResp
\* when it reaches it
BeforeConnect(v, input) ==
    IF ~ValidatesFields(v) THEN NoResp
    ELSE IF NoReqFiles(input)
         THEN Response(400, "No files were uploaded", <<>>, Undefined, NoData)
    ELSE IF Len(missingFields(input.body)) > 0
         THEN Response(400, "Missing required fields", missingFields(input.body),
                       Undefined, NoData)
    ELSE NoResp

\* what the handler sends between the connection step and the save;
\* NoResp when it reaches the save.  files.reviewScreenshot on an undefined
\* req.files throws a TypeError into the catch.
BeforeSave(v, env, r, input) ==
    IF NoReqFiles(input)
    THEN OuterCatch(v, env, "Cannot read properties of undefined")
    ELSE IF \E i \in 1..Len(FileFields) : FileFields[i] \notin DOMAIN ReqFiles(v, r, input)
         THEN Response(400, "Both review screenshot and ticket are required", <<>>,
                       Undefined, NoData)
    ELSE NoResp

\* the keys the handler sets after ...req.body
FileData(v, files) ==
    IF MemoryStorage(v)
    THEN [reviewScreenshot |-> files["reviewScreenshot"][1].buffer,
          reviewScreenshotType |-> files["reviewScreenshot"][1].mimetype,
          ticket |-> files["ticket"][1].buffer,
          ticketType |-> files["ticket"][1].mimetype]
    ELSE [reviewScreenshotPath |-> files["reviewScreenshot"][1].path,
          ticketPath |-> files["ticket"][1].path]

\* formData with ...req.body spread last, so that text fields win over the
\* keys taken from the files
formDataBodyLast(v, r, input) == Spread(FileData(v, ReqFiles(v, r, input)), input.body)

\* const formData = { ...req.body, <the file keys> }
formData(v, r, input) == Spread(input.body, FileData(v, ReqFiles(v, r, input)))

\* const travelForm = new TravelForm(formData)
travelForm(v, r, input) == NewTravelForm(v, r, formData(v, r, input))

(* ------------------------------- actions ------------------------------- *)

Reqs == 1..MaxReqs

NoInput == Request(FALSE, NoData, [reviewScreenshot |-> <<>>, ticket |-> <<>>])

NewReq == [pc |-> "new", input |-> NoInput, resp |-> NoResp, at |-> "new"]

\* connectToDatabase() that connects whether or not the handle is cached
NeedsConnectIgnoresCache(v, cached) == ConnectsLazily(v)

\* connectToDatabase() / connectDB() goes on to mongoose.connect: the entry
\* point connects inside the handler and no handle is cached
NeedsConnect(v, cached) == ConnectsLazily(v) /\ ~cached

\* the connection step of a request that does not call mongoose.connect:
\* the cached handle, or the connection made before app.listen
Connected(v) == IF ConnectsLazily(v) THEN "cached" ELSE "boot"

InFlight == {r \in Reqs : reqs[r].pc \notin {"new", "retired"}}

\* requests the process handles at once under a client profile
Overlap(p) == IF p = "concurrent" THEN MaxReqs ELSE 1

\* the process after module load, serving clients of profile p
Boot(p) ==
    /\ variant \in Variants
    /\ nodeEnv \in IF ReadsNodeEnv(variant) THEN {"development", "production"}
                   ELSE {"production"}
    /\ profile = p
    /\ cachedDb = FALSE
    /\ connects = IF ConnectsLazily(variant) THEN 0 ELSE 1
    /\ store = {}
    /\ reqs = [r \in Reqs |-> NewReq]
    /\ conn = [r \in Reqs |-> "none"]

Init == Boot("sequential")

\* the same process under clients whose requests overlap
InitRace == Boot("concurrent")

\* the same process under requests that take each path of the handler
InitPaths == Boot("paths")

\* the handler answers request r (at: where the handler stood)
Respond(r, input, resp) ==
    reqs' = [reqs EXCEPT ![r] =
                [pc |-> "done", input |-> input, resp |-> resp, at |-> reqs[r].pc]]

\* the handler of request r waits at an await
Await(r, input, at) ==
    reqs' = [reqs EXCEPT ![r] =
                [pc |-> at, input |-> input, resp |-> NoResp, at |-> reqs[r].pc]]

\* the handler from the connection step on, up to the await of save()
Continue(r, input) ==
    IF input.route = "health" THEN Respond(r, input, HealthOk)
    ELSE IF BeforeSave(variant, nodeEnv, r, input) # NoResp
    THEN Respond(r, input, BeforeSave(variant, nodeEnv, r, input))
    ELSE Await(r, input, "saving")

\* POST /api/submit-form: upload.fields(...), then the handler up to its
\* first await that waits for I/O
Handle(r, input) ==
    /\ reqs[r].pc = "new"
    /\ \A q \in Reqs : q < r => reqs[q].pc # "new"
    /\ Cardinality(InFlight) < Overlap(profile)
    /\ IF UploadError(input) # "none"
       THEN /\ Respond(r, input, ErrorMiddleware(variant, nodeEnv, UploadError(input)))
            /\ UNCHANGED <<cachedDb, connects, conn>>
       ELSE IF BeforeConnect(variant, input) # NoResp
       THEN /\ Respond(r, input, BeforeConnect(variant, input))
            /\ UNCHANGED <<cachedDb, connects, conn>>
       ELSE IF NeedsConnect(variant, cachedDb)
       THEN /\ Await(r, input, "connecting")
            /\ connects' = connects + 1
            /\ conn' = [conn EXCEPT ![r] = "pending"]
            /\ UNCHANGED cachedDb
       ELSE /\ Continue(r, input)
            /\ conn' = [conn EXCEPT ![r] = Connected(variant)]
            /\ UNCHANGED <<cachedDb, connects>>
    /\ UNCHANGED <<variant, nodeEnv, profile, store>>

\* GET /api/health of part_002, the one health handler that calls
\* connectToDatabase(); the others answer without touching any state
Health(r) ==
    /\ Pings(variant)
    /\ reqs[r].pc = "new"
    /\ \A q \in Reqs : q < r => reqs[q].pc # "new"
    /\ Cardinality(InFlight) < Overlap(profile)
    /\ IF NeedsConnect(variant, cachedDb)
       THEN /\ Await(r, HealthRequest, "connecting")
            /\ connects' = connects + 1
            /\ conn' = [conn EXCEPT ![r] = "pending"]
       ELSE /\ Continue(r, HealthRequest)
            /\ conn' = [conn EXCEPT ![r] = Connected(variant)]
            /\ UNCHANGED connects
    /\ UNCHANGED <<variant, nodeEnv, profile, cachedDb, store>>

\* await mongoose.connect(...) resolves
ConnectOk(r) ==
    /\ reqs[r].pc = "connecting"
    /\ IF Pings(variant)
       THEN /\ Await(r, reqs[r].input, "pinging")
            /\ UNCHANGED <<cachedDb, conn>>
       ELSE /\ cachedDb' = TRUE
            /\ conn' = [conn EXCEPT ![r] = "fresh"]
            /\ Continue(r, reqs[r].input)
    /\ UNCHANGED <<variant, nodeEnv, profile, connects, store>>

\* a rejected mongoose.connect(...) whose error is swallowed: the handler
\* goes on to the file check and the save
ConnectFailSwallowed(r) ==
    /\ reqs[r].pc = "connecting"
    /\ conn' = [conn EXCEPT ![r] = "failed"]
    /\ Continue(r, reqs[r].input)
    /\ UNCHANGED <<variant, nodeEnv, profile, cachedDb, connects, store>>

\* a rejected mongoose.connect(...) with the handle assigned before the await
ConnectFailCachesHandle(r) ==
    /\ reqs[r].pc = "connecting"
    /\ Respond(r, reqs[r].input,
               ConnectFailureOf(variant, nodeEnv, reqs[r].input, "connect ECONNREFUSED"))
    /\ conn' = [conn EXCEPT ![r] = "failed"]
    /\ cachedDb' = TRUE
    /\ UNCHANGED <<variant, nodeEnv, profile, connects, store>>

\* await mongoose.connect(...) rejects
ConnectFail(r) ==
    /\ reqs[r].pc = "connecting"
    /\ Respond(r, reqs[r].input,
               ConnectFailureOf(variant, nodeEnv, reqs[r].input, "connect ECONNREFUSED"))
    /\ conn' = [conn EXCEPT ![r] = "failed"]
    /\ UNCHANGED <<variant, nodeEnv, profile, cachedDb, connects, store>>

\* await mongoose.connection.db.admin().ping() resolves
PingOk(r) ==
    /\ reqs[r].pc = "pinging"
    /\ cachedDb' = TRUE
    /\ conn' = [conn EXCEPT ![r] = "fresh"]
    /\ Continue(r, reqs[r].input)
    /\ UNCHANGED <<variant, nodeEnv, profile, connects, store>>

\* await mongoose.connection.db.admin().ping() rejects
PingFail(r) ==
    /\ reqs[r].pc = "pinging"
    /\ Respond(r, reqs[r].input,
               ConnectFailureOf(variant, nodeEnv, reqs[r].input, "ping timed out"))
    /\ conn' = [conn EXCEPT ![r] = "failed"]
    /\ UNCHANGED <<variant, nodeEnv, profile, cachedDb, connects, store>>

\* await travelForm.save() resolves: the document is inserted and the
\* handler sends 201
SaveOk(r) ==
    /\ reqs[r].pc = "saving"
    /\ ~ValidationFails(variant, travelForm(variant, r, reqs[r].input))
    /\ ~DuplicateKey(store, travelForm(variant, r, reqs[r].input))
    /\ store' = store \cup {[doc |-> travelForm(variant, r, reqs[r].input), req |-> r]}
    /\ Respond(r, reqs[r].input, Created(variant, travelForm(variant, r, reqs[r].input)))
    /\ UNCHANGED <<variant, nodeEnv, profile, cachedDb, connects, conn>>

\* save() rejecting after the document went in
SaveFailAfterInsert(r) ==
    /\ reqs[r].pc = "saving"
    /\ store' = store \cup {[doc |-> travelForm(variant, r, reqs[r].input), req |-> r]}
    /\ Respond(r, reqs[r].input, SaveFailure(variant, nodeEnv, "save failed"))
    /\ UNCHANGED <<variant, nodeEnv, profile, cachedDb, connects, conn>>

\* a rejected save() that no catch answers: the request is left hanging
SaveFailUnanswered(r) ==
    /\ reqs[r].pc = "saving"
    /\ Await(r, reqs[r].input, "unanswered")
    /\ UNCHANGED <<variant, nodeEnv, profile, cachedDb, connects, store, conn>>

\* await travelForm.save() rejects: validation, a duplicate _id, or the
\* store failing the insert
SaveFail(r) ==
    /\ reqs[r].pc = "saving"
    /\ Respond(r, reqs[r].input, SaveFailure(variant, nodeEnv, "save failed"))
    /\ UNCHANGED <<variant, nodeEnv, profile, cachedDb, connects, store, conn>>

\* the response has gone out and the request is over
Retire(r) ==
    /\ reqs[r].pc = "done"
    /\ reqs' = [reqs EXCEPT ![r] = [NewReq EXCEPT !.pc = "retired"]]
    /\ conn' = [conn EXCEPT ![r] = "none"]
    /\ UNCHANGED <<variant, nodeEnv, profile, cachedDb, connects, store>>

Next ==
    \/ \E r \in Reqs : \E input \in InputsOf(profile) : Handle(r, input)
    \/ \E r \in Reqs : Health(r)
    \/ \E r \in Reqs : ConnectOk(r)
    \/ \E r \in Reqs : ConnectFail(r)
    \/ \E r \in Reqs : PingOk(r)
    \/ \E r \in Reqs : PingFail(r)
    \/ \E r \in Reqs : SaveOk(r)
    \/ \E r \in Reqs : SaveFail(r)
    \/ \E r \in Reqs : Retire(r)

Spec == Init /\ [][Next]_vars

\* overlapping requests
SpecRace == InitRace /\ [][Next]_vars

\* an await that waits for I/O settles: the connect and the ping resolve or
\* reject (server selection and socket timeouts), and so does the save
Settle(r) ==
    \/ ConnectOk(r) \/ ConnectFail(r)
    \/ PingOk(r) \/ PingFail(r)
    \/ SaveOk(r) \/ SaveFail(r)

\* each path of the handler, with every pending await settling in the end
FairSpec == InitPaths /\ [][Next]_vars /\ \A r \in Reqs : WF_vars(Settle(r))

(* ---------------------- vocabulary of the properties -------------------- *)

\* request r has been answered and its response is still at hand
Done(r) == reqs[r].pc = "done"

\* the required fields a body lacks or holds empty
AbsentOrEmpty(body) == {f \in RequiredSet : f \notin DOMAIN body \/ body[f] = ""}

\* the file parts a request does not carry
AbsentParts(input) ==
    {f \in {"reviewScreenshot", "ticket"} : ~input.multipart \/ Len(input.files[f]) = 0}

\* every file a request carries has an allowed type and size, one per part
FilesAcceptable(input) ==
    \A f \in {"reviewScreenshot", "ticket"} :
        /\ Len(input.files[f]) <= 1
        /\ \A i \in 1..Len(input.files[f]) :
              /\ input.files[f][i].mimetype \in allowedTypes
              /\ input.files[f][i].size <= fileSize

\* a file a request carries has a type outside the allowed set, or is
\* larger than 5 MiB
CarriesRejectedFile(input) ==
    /\ input.multipart
    /\ \E f \in {"reviewScreenshot", "ticket"} : \E i \in 1..Len(input.files[f]) :
          \/ input.files[f][i].mimetype \notin allowedTypes
          \/ input.files[f][i].size > fileSize

\* the elements of a sequence
Range(seq) == {seq[i] : i \in 1..Len(seq)}

\* the records request r has committed
RecordsOf(r) == {e \in store : e.req = r}

(* ------------------------------ properties ----------------------------- *)

\* C1 (as claimed): a request whose two files are present and accepted and
\* that lacks some required text field is answered 400, and the fields
\* listed in the body are exactly the absent-or-empty ones, in every entry
\* point.
C1_MissingFieldsListed ==
    \A r \in Reqs :
        (/\ Done(r)
         /\ reqs[r].input.multipart
         /\ AbsentParts(reqs[r].input) = {}
         /\ FilesAcceptable(reqs[r].input)
         /\ AbsentOrEmpty(reqs[r].input.body) # {})
        => /\ reqs[r].resp.status = 400
           /\ Range(reqs[r].resp.fields) = AbsentOrEmpty(reqs[r].input.body)
           /\ Len(reqs[r].resp.fields) = Cardinality(AbsentOrEmpty(reqs[r].input.body))

\* C2 (as claimed): a request that lacks the reviewScreenshot part or the
\* ticket part is answered 400, whatever the store connection does and
\* whatever the text fields hold.  Stated for multipart requests whose other
\* files are acceptable.
C2_MissingFileIs400 ==
    \A r \in Reqs :
        (/\ Done(r)
         /\ reqs[r].input.multipart
         /\ FilesAcceptable(reqs[r].input)
         /\ AbsentParts(reqs[r].input) # {})
        => reqs[r].resp.status = 400

\* C3 (as claimed): a request carrying a file of a type outside
\* {image/jpeg, image/png, application/pdf}, or larger than 5 MiB, is
\* answered 400.
C3_RejectedFileIs400 ==
    \A r \in Reqs :
        (Done(r) /\ CarriesRejectedFile(reqs[r].input)) => reqs[r].resp.status = 400

\* the record request r committed (a request commits at most one)
RecordOf(r) == CHOOSE e \in store : e.req = r

\* the stored document holds, for the part f, what request r uploaded under
\* f: the bytes themselves, or the path at which diskStorage wrote them
HoldsUpload(v, doc, r, f, input) ==
    IF MemoryStorage(v)
    THEN Get(doc, f) = input.files[f][1].content
    ELSE Get(doc, f \o "Path") = DiskPath(r, f)

\* the stored document holds the text field f as submitted (the date as the
\* Date the submitted string denotes)
HoldsField(doc, f, body) ==
    IF f \notin DOMAIN body THEN f \notin DOMAIN doc
    ELSE IF f = "dateOfTravel" THEN Get(doc, f) = castDate(body[f])
    ELSE Get(doc, f) = body[f]

\* C4: a 201 is sent only once the insert has succeeded, and the record then
\* in the store holds the five text fields as submitted and the content
\* uploaded as reviewScreenshot and as ticket.
C4_CreatedMeansStored ==
    \A r \in Reqs :
        (Done(r) /\ reqs[r].resp.status = 201)
        => /\ Cardinality(RecordsOf(r)) = 1
           /\ AbsentParts(reqs[r].input) = {}
           /\ \A f \in RequiredSet :
                 HoldsField(RecordOf(r).doc, f, reqs[r].input.body)
           /\ \A f \in {"reviewScreenshot", "ticket"} :
                 HoldsUpload(variant, RecordOf(r).doc, r, f, reqs[r].input)

\* C4 witness: a 201 has been sent to a request whose body also carried text
\* fields named reviewScreenshot and ticket, and its record is in the store.
C4_Witness ==
    \E r \in Reqs :
        /\ Done(r) /\ reqs[r].resp.status = 201
        /\ "reviewScreenshot" \in DOMAIN reqs[r].input.body
        /\ RecordsOf(r) # {}

\* C5: a request answered with anything but 201 has committed no record.
C5_FailureCommitsNothing ==
    \A r \in Reqs :
        (Done(r) /\ reqs[r].resp.status # 201) => RecordsOf(r) = {}

\* C5 witness: an insert has failed (500) while another request's record is
\* in the store.
C5_Witness ==
    \E r \in Reqs :
        /\ Done(r) /\ reqs[r].resp.status = 500
        /\ reqs[r].resp.error \in {"Failed to save form data", "Failed to submit form"}
        /\ AbsentParts(reqs[r].input) = {}
        /\ store # {}

\* C6 (as claimed): every record in the store has all five text fields
\* populated.
C6_FiveFieldsPopulated ==
    \A e \in store : \A f \in RequiredSet : Populated(e.doc, f)

\* C7 (as claimed): every record has one review-screenshot attachment and
\* one ticket attachment, and the MIME type recorded for each is an allowed
\* one.
C7_TypeRecordedForEach ==
    \A e \in store :
        /\ Populated(e.doc, "reviewScreenshot") \/ Populated(e.doc, "reviewScreenshotPath")
        /\ Populated(e.doc, "ticket") \/ Populated(e.doc, "ticketPath")
        /\ Get(e.doc, "reviewScreenshotType") \in allowedTypes
        /\ Get(e.doc, "ticketType") \in allowedTypes

\* C7 (amended): every record has one review-screenshot attachment and one
\* ticket attachment, each from a request that uploaded exactly one file for
\* it.  In the memory-storage entry points the MIME type recorded for each is
\* that of the uploaded file and an allowed one, whatever text fields the
\* body names like the attachment attributes; the disk-storage entry points
\* record the path of each file and no MIME type.
C7_AttachmentsAndTypes ==
    /\ \A e \in store :
          IF MemoryStorage(variant)
          THEN /\ Populated(e.doc, "reviewScreenshot") /\ Populated(e.doc, "ticket")
               /\ Get(e.doc, "reviewScreenshotType") \in allowedTypes
               /\ Get(e.doc, "ticketType") \in allowedTypes
          ELSE /\ Populated(e.doc, "reviewScreenshotPath") /\ Populated(e.doc, "ticketPath")
               /\ "reviewScreenshotType" \notin DOMAIN e.doc
               /\ "ticketType" \notin DOMAIN e.doc
    /\ \A r \in Reqs : \A f \in {"reviewScreenshot", "ticket"} :
          (Done(r) /\ RecordsOf(r) # {})
          => (/\ Len(reqs[r].input.files[f]) = 1
              /\ reqs[r].input.files[f][1].mimetype \in allowedTypes
              /\ (MemoryStorage(variant)
                  => Get(RecordOf(r).doc, f \o "Type")
                       = reqs[r].input.files[f][1].mimetype))

\* C7 witness: a memory-storage entry point has stored the record of a request
\* whose body carried text fields reviewScreenshotType and ticketType.
C7_Witness ==
    \E r \in Reqs :
        /\ Done(r) /\ RecordsOf(r) # {}
        /\ MemoryStorage(variant)
        /\ {"reviewScreenshotType", "ticketType"} \subseteq DOMAIN reqs[r].input.body

\* C8 (as claimed): a request that lacks a file part and a required text
\* field is answered with the missing-file error, not with the
\* missing-fields error.
C8_FileGateFirst ==
    \A r \in Reqs :
        (/\ Done(r)
         /\ reqs[r].input.multipart
         /\ FilesAcceptable(reqs[r].input)
         /\ AbsentParts(reqs[r].input) # {}
         /\ AbsentOrEmpty(reqs[r].input.body) # {})
        => reqs[r].resp.error # "Missing required fields"

\* C9 (as claimed): the createdAt and the _id of every record are the ones
\* the system assigned when it built the record, never values of the request.
C9_SystemAssigned ==
    \A e \in store :
        /\ e.doc["createdAt"] = Now(e.req)
        /\ e.doc["_id"] = NewObjectId(e.req)

\* the bytes a request uploaded
UploadedContents(input) ==
    UNION {{input.files[f][i].content : i \in 1..Len(input.files[f])} :
             f \in {"reviewScreenshot", "ticket"}}

\* C10: the body of a 201 carries the identifier of the record and its
\* non-binary fields, and neither attachment's binary content, in every entry
\* point.
C10_NoBinaryEchoed ==
    \A r \in Reqs :
        (Done(r) /\ reqs[r].resp.status = 201)
        => /\ RecordsOf(r) # {}
           /\ "_id" \in DOMAIN reqs[r].resp.data
           /\ \A k \in DOMAIN RecordOf(r).doc :
                 (PathType(k) # "Buffer")
                 => (k \in DOMAIN reqs[r].resp.data
                     /\ reqs[r].resp.data[k] = RecordOf(r).doc[k])
           /\ \A k \in DOMAIN reqs[r].resp.data :
                 (PathType(k) # "Buffer"
                  /\ reqs[r].resp.data[k] \notin UploadedContents(reqs[r].input))

\* C10 witness: a memory-storage entry point, whose record holds the bytes of
\* both files, has sent a 201.
C10_Witness ==
    \E r \in Reqs :
        /\ Done(r) /\ reqs[r].resp.status = 201
        /\ RecordsOf(r) # {}
        /\ {"reviewScreenshot", "ticket"} \subseteq DOMAIN RecordOf(r).doc
        /\ "reviewScreenshotType" \in DOMAIN reqs[r].resp.data

\* the connection step of submission r failed and r has been answered
ConnectionFailed(r) ==
    Done(r) /\ reqs[r].input.route = "submit" /\ conn[r] = "failed"

\* the insert of submission r was rejected and r has been answered
InsertFailed(r) ==
    /\ Done(r) /\ reqs[r].input.route = "submit"
    /\ reqs[r].at = "saving" /\ reqs[r].resp.status # 201

\* what the body of an error response says went wrong
Indication(resp) == [error |-> resp.error, fields |-> resp.fields]

\* C11: a submission whose connection step failed and a submission whose
\* insert failed are both answered with 500, and the bodies of the two
\* responses name different errors, in every entry point.
C11_FailuresToldApart ==
    \A r1, r2 \in Reqs :
        (ConnectionFailed(r1) /\ InsertFailed(r2))
        => /\ reqs[r1].resp.status = 500
           /\ reqs[r2].resp.status = 500
           /\ Indication(reqs[r1].resp) # Indication(reqs[r2].resp)

\* C12: with NODE_ENV = production, no error response (connection failure,
\* insert failure, unhandled fault, error middleware) carries the message of
\* the underlying error in details.
C12_NoDetailsInProduction ==
    \A r \in Reqs :
        (nodeEnv = "production" /\ Done(r) /\ reqs[r].resp.status >= 400)
        => reqs[r].resp.details = Undefined

\* the handler of request r waits at an await
Waiting(r) == reqs[r].pc \in {"connecting", "pinging", "saving"}

\* a JSON body under an HTTP status
JsonResponse(resp) ==
    /\ resp.status \in {200, 201, 400, 500}
    /\ resp.error # Undefined \/ resp.data # NoData

\* C13: every request, on every path through the upload middleware and the
\* handler, is answered in the end, with one response that is a JSON body
\* under an HTTP status: a request that waits at an await is answered later,
\* a step of a request either leaves it waiting or answers it, and a request
\* that has been answered is not answered again.
C13_ExactlyOneResponse ==
    /\ \A r \in Reqs : Waiting(r) ~> Done(r)
    /\ [][\A r \in Reqs :
            /\ (reqs[r].pc = "new" /\ reqs'[r] # reqs[r])
               => (Waiting(r)' \/ Done(r)')
            /\ (Waiting(r) /\ reqs'[r] # reqs[r])
               => (Waiting(r)' \/ Done(r)')
            /\ Done(r)'
               => JsonResponse(reqs'[r].resp)
            /\ (Done(r) /\ reqs'[r] # reqs[r])
               => (reqs'[r].pc = "retired" /\ reqs'[r].resp = NoResp)]_vars

\* C13 witness: after an earlier request was answered, a request that waited
\* for its own connect and then for its save has been answered.
C13_Witness ==
    \E r \in Reqs :
        /\ r > 1
        /\ Done(r) /\ reqs[r].at = "saving" /\ conn[r] = "fresh"
        /\ JsonResponse(reqs[r].resp)

\* the requests whose connection step called mongoose.connect and set the handle
Established == {r \in Reqs : conn[r] = "fresh"}

\* the requests that have arrived
Arrived == {r \in Reqs : reqs[r].pc # "new"}

\* C14 as stated: over any interleaving of requests, two first requests that
\* overlap included, the connection setup that assigns the cached handle is
\* performed at most once.
C14_EstablishedOnce == Cardinality(Established) <= 1

\* C14, amended: under overlapping requests a request calls mongoose.connect
\* only while the handle is unset, at most once, so there are no more setup
\* calls than requests that arrived; once the handle is set it stays set and
\* no further setup call is made. Requests that enter the connection step
\* before the handle is set each connect and each assign it.
C14_NoSetupOnceCached ==
    /\ [](ConnectsLazily(variant) => connects <= Cardinality(Arrived))
    /\ [][/\ cachedDb => (cachedDb' /\ connects' = connects)
          /\ connects' \in {connects, connects + 1}
          /\ \A r \in Reqs :
                (conn[r] # "pending" /\ conn'[r] = "pending") => ~cachedDb]_vars

\* C14 witness: two overlapping requests have each connected and each set
\* the handle.
C14_Witness ==
    /\ connects = 2 /\ cachedDb
    /\ \E r1, r2 \in Established : r1 # r2

\* C15: with requests handled one after another, once a request has
\* connected every later request that reaches the connection step (a
\* submission, or the health check that calls connectToDatabase) gets the
\* cached handle and calls no connection setup: no setup call follows the
\* first success.
C15_CachedHandleReused ==
    /\ [](cachedDb => \A r \in Reqs : conn[r] \in {"none", "cached", "fresh"})
    /\ [](Cardinality(Established) <= 1)
    /\ [][\A r \in Reqs :
            (cachedDb /\ reqs[r].pc = "new" /\ reqs'[r].pc # "new")
            => /\ connects' = connects
               /\ conn'[r] \in {"none", "cached"}
               /\ ~Waiting(r)' \/ reqs'[r].pc = "saving"]_vars

\* C15 witness: after the first request connected, a later request has
\* passed the connection step on the cached handle, with one setup call made
\* in all.
C15_Witness ==
    \E r \in Reqs :
        /\ r > 1 /\ conn[r] = "cached" /\ connects = 1
        /\ Done(r) /\ reqs[r].resp.status \in {200, 201}

\* request r waits for its save() or has been answered after it
ReachedSave(r) == reqs[r].pc = "saving" \/ (Done(r) /\ reqs[r].at = "saving")

\* C16: a request attempts the insert only after its own connection step
\* succeeded, by a fresh connect or on the cached handle (in index.ts, on
\* the connection made before the server listens); save() is never reached
\* by a request whose connection step failed or has not run.
C16_SaveAfterConnect ==
    \A r \in Reqs :
        ReachedSave(r)
        => /\ conn[r] \in {"fresh", "cached", "boot"}
           /\ conn[r] \in {"fresh", "cached"} => (ConnectsLazily(variant) /\ cachedDb)
           /\ conn[r] = "boot" => (~ConnectsLazily(variant) /\ connects = 1)

\* C16 witness: while one request was answered for its failed connection,
\* an overlapping one has connected and waits for its save().
C16_Witness ==
    \E r1, r2 \in Reqs :
        /\ Done(r1) /\ conn[r1] = "failed"
        /\ reqs[r2].pc = "saving" /\ conn[r2] = "fresh"

\* the valid submission
ValidSubmission == Request(TRUE, ValidBody, GoodFiles)

\* C17: a connection attempt that fails (the connect, or the ping after it)
\* leaves the cached handle unset and is the only attempt of its request,
\* which is answered at once; while the handle is unset the next request
\* that reaches the connection step makes a fresh attempt, and when that
\* succeeds a valid submission goes on to its save(), which can be accepted
\* and answered with 201, the rejected insert being the only other outcome.
C17_FailedConnectRecoverable ==
    /\ [](\A r \in Reqs :
            /\ (reqs[r].pc = "saving" /\ reqs[r].input = ValidSubmission)
               => ENABLED SaveOk(r)
            /\ (Done(r) /\ conn[r] = "fresh" /\ reqs[r].input = ValidSubmission)
               => (reqs[r].resp.status = 201 \/ InsertFailed(r))
            /\ conn[r] = "failed" => (Done(r) /\ reqs[r].resp.status = 500))
    /\ [][\A r \in Reqs :
            /\ (conn[r] = "pending" /\ conn'[r] = "failed")
               => (~cachedDb' /\ connects' = connects)
            /\ (reqs[r].pc = "new" /\ conn'[r] # "none" /\ ~cachedDb
                /\ ConnectsLazily(variant))
               => (conn'[r] = "pending" /\ connects' = connects + 1)
            /\ (conn[r] = "pending" /\ conn'[r] = "fresh"
                /\ reqs[r].input = ValidSubmission)
               => reqs'[r].pc = "saving"]_vars

\* C17 witness: after a request whose connection attempt failed, the next
\* request has connected afresh and its valid submission has got 201.
C17_Witness ==
    \E r \in Reqs :
        /\ r > 1 /\ connects = 2 /\ cachedDb
        /\ conn[r] = "fresh" /\ reqs[r].input = ValidSubmission
        /\ Done(r) /\ reqs[r].resp.status = 201

====
